---- MODULE Spec2Model ----
(***************************************************************************)
(* A model of trend-notify (src/one.py): the trend / breakout analysis of  *)
(* analyze_market, and the batch loop of main with its collaborators       *)
(* load_tickers, get_data, get_trend_details and send_mail.                *)
(*                                                                         *)
(* Encoding of Python values.                                              *)
(*   - None is the empty tuple <<>>; a value v of a variable that may also *)
(*     be None is the one-element tuple <<v>> (Some(v)).                   *)
(*   - A dict is a function from its keys (strings) to its values; {} is   *)
(*     the function with the empty domain.                                 *)
(*   - A call either returns or raises: [exc |-> FALSE, value |-> v] or    *)
(*     [exc |-> TRUE, value |-> <exception name>].                         *)
(*   - A DataFrame is [columns |-> set of column names, rows |-> sequence  *)
(*     of rows]; a row carries its index label (date) and its prices.      *)
(*   - Prices are integers (exact arithmetic); every cell of a column that *)
(*     is present holds a number.                                          *)
(*   - A pandas Timestamp is [year, month, day].                           *)
(*   - A character is its Unicode code point, and a string whose           *)
(*     characters matter (a line of the ticker file, a symbol, formatted   *)
(*     text) is the sequence of its characters.  Names the program only    *)
(*     compares or looks up (column names, dict keys, 'up' / 'down',       *)
(*     'BUY' / 'SELL') are TLA+ strings.                                   *)
(*   - A multi-line string is the sequence of its lines.                   *)
(***************************************************************************)
EXTENDS Integers, Sequences, FiniteSets, TLC

VARIABLES
  pc,             \* where main (or the analyze_market call) stands
  file,           \* what open(TICKER_FILE) finds
  ticker_symbols, \* the list load_tickers returned
  idx,            \* position of the for loop in ticker_symbols
  fetched,        \* the symbols get_data was called with, in call order
  log,            \* per fetched symbol, what get_trend_details logged
  data,           \* the frame of the current symbol / analyze_market's input
  threshold,      \* the threshold analyze_market was called with
  ret,            \* what get_trend_details / analyze_market returned
  sendCalls,      \* per position of ticker_symbols, the calls of send_mail
  lastMail,       \* the arguments of the last call of send_mail
  lastDelivery    \* whether the last call's SMTP delivery went through

vars == <<pc, file, ticker_symbols, idx, fetched, log, data, threshold, ret,
          sendCalls, lastMail, lastDelivery>>

(***************************************************************************)
(* Bounds of the model.                                                    *)
(***************************************************************************)
\* Largest number of bars of a window handed to analyze_market.
MaxBars == 3
\* Largest number of lines of the ticker file.
MaxLines == 2

\* Prices a bar's Open / High / Low are drawn from.
Prices == {1, 2, 5}
\* Thresholds analyze_market is called with (3 is the default).
Thresholds == {0, 1, 3}

(***************************************************************************)
(* Python values.                                                          *)
(***************************************************************************)
None == <<>>
Some(v) == <<v>>
EmptyDict == [k \in {} |-> k]

Return(v) == [exc |-> FALSE, value |-> v]
Raise(e) == [exc |-> TRUE, value |-> e]

(***************************************************************************)
(* Timestamps and their formatting.                                        *)
(***************************************************************************)
Timestamp(y, m, d) == [year |-> y, month |-> m, day |-> d]

\* The index labels of a fetched window: consecutive trading days, ascending.
TradingDays ==
  << Timestamp(2024, 2, 28), Timestamp(2024, 2, 29), Timestamp(2024, 3, 1),
     Timestamp(2024, 3, 4), Timestamp(2024, 3, 5), Timestamp(2024, 3, 6) >>

\* Mutant: >= in place of >.
TimestampGE(a, b) ==
  \/ a.year > b.year
  \/ a.year = b.year /\ a.month > b.month
  \/ a.year = b.year /\ a.month = b.month /\ a.day >= b.day

\* Timestamp comparison a > b.
TimestampGT(a, b) ==
  \/ a.year > b.year
  \/ a.year = b.year /\ a.month > b.month
  \/ a.year = b.year /\ a.month = b.month /\ a.day > b.day

\* The decimal digits of a natural number, as characters.
RECURSIVE Digits(_)
Digits(n) ==
  IF n < 10 THEN <<48 + n>> ELSE Digits(n \div 10) \o <<48 + (n % 10)>>

Pad2(n) == IF n < 10 THEN <<48>> \o Digits(n) ELSE Digits(n)

\* ts.strftime('%Y-%m-%d')
strftime(ts) ==
  Digits(ts.year) \o <<45>> \o Pad2(ts.month) \o <<45>> \o Pad2(ts.day)

\* format(x, '.2f') of an integer-valued price that is not negative.
Format2f(x) == Digits(x) \o <<46, 48, 48>>

(***************************************************************************)
(* DataFrames.                                                             *)
(***************************************************************************)
RequiredColumns == {"Open", "High", "Low"}

Row(d, o, h, l) == [date |-> d, Open |-> o, High |-> h, Low |-> l]

DataFrame(cols, rws) == [columns |-> cols, rows |-> rws]

\* pd.DataFrame(): no columns, no rows.
EmptyFrame == DataFrame({}, <<>>)

\* data.empty: any axis has length 0.
IsEmpty(df) == df.columns = {} \/ Len(df.rows) = 0

\* Mutant: the label of the last occurrence of the maximum.
idxmax_last(df, col) ==
  LET n == Len(df.rows)
      i == CHOOSE i \in 1..n :
             /\ \A j \in 1..n : df.rows[j][col] <= df.rows[i][col]
             /\ \A j \in (i + 1)..n : df.rows[j][col] # df.rows[i][col]
  IN df.rows[i].date

\* Series.idxmax(): the index label of the first occurrence of the maximum.
idxmax(df, col) ==
  LET n == Len(df.rows)
      i == CHOOSE i \in 1..n :
             /\ \A j \in 1..n : df.rows[j][col] <= df.rows[i][col]
             /\ \A j \in 1..(i - 1) : df.rows[j][col] # df.rows[i][col]
  IN df.rows[i].date

\* Series.idxmin(): the index label of the first occurrence of the minimum.
idxmin(df, col) ==
  LET n == Len(df.rows)
      i == CHOOSE i \in 1..n :
             /\ \A j \in 1..n : df.rows[j][col] >= df.rows[i][col]
             /\ \A j \in 1..(i - 1) : df.rows[j][col] # df.rows[i][col]
  IN df.rows[i].date

\* data.loc[label]: the row with that index label (the index is unique).
loc(df, label) ==
  df.rows[CHOOSE i \in 1..Len(df.rows) : df.rows[i].date = label]

\* data.iloc[-1]: the last row.
iloc_last(df) == df.rows[Len(df.rows)]

Abs(x) == IF x < 0 THEN -x ELSE x

(***************************************************************************)
(* analyze_market                                                          *)
(***************************************************************************)
\* Lines 55-60: the trend from the dates of the two extremes.
classify_trend(date_of_lowest_low, date_of_highest_high) ==
  IF TimestampGT(date_of_lowest_low, date_of_highest_high) THEN "up" ELSE "down"

\* Mutant: < in place of <=.
breakout_strict(current_trend, today, th) ==
  IF current_trend = "up" THEN Abs(today.Open - today.Low) < th
  ELSE IF current_trend = "down" THEN Abs(today.Open - today.High) < th
  ELSE FALSE

\* Lines 62-71: the breakout test on the last bar.
breakout(current_trend, today, th) ==
  IF current_trend = "up" THEN Abs(today.Open - today.Low) <= th
  ELSE IF current_trend = "down" THEN Abs(today.Open - today.High) <= th
  ELSE FALSE

\* The dict of lines 73-82 with the given trade setup.
details_dict(current_trend, today, date_of_highest_high, date_of_lowest_low, action, stoploss, target) ==
  [trend |-> Some(current_trend),
   current_price |-> today.Open,
   latest_date |-> strftime(today.date),
   action |-> action,
   stoploss |-> stoploss,
   target |-> target,
   high_date |-> strftime(date_of_highest_high),
   low_date |-> strftime(date_of_lowest_low)]

\* Mutant: SELL with stoploss and target exchanged.
build_details_sell_swapped(current_trend, signal_breakout, today, date_of_highest_high, date_of_lowest_low, highest_high_val, lowest_low_val) ==
  IF signal_breakout /\ current_trend = "up"
  THEN details_dict(current_trend, today, date_of_highest_high,
                    date_of_lowest_low, Some("BUY"), Some(lowest_low_val),
                    Some(highest_high_val))
  ELSE IF signal_breakout /\ current_trend = "down"
  THEN details_dict(current_trend, today, date_of_highest_high,
                    date_of_lowest_low, Some("SELL"), Some(lowest_low_val),
                    Some(highest_high_val))
  ELSE details_dict(current_trend, today, date_of_highest_high,
                    date_of_lowest_low, None, None, None)

\* Mutant: BUY with stoploss and target exchanged.
build_details_buy_swapped(current_trend, signal_breakout, today, date_of_highest_high, date_of_lowest_low, highest_high_val, lowest_low_val) ==
  IF signal_breakout /\ current_trend = "up"
  THEN details_dict(current_trend, today, date_of_highest_high,
                    date_of_lowest_low, Some("BUY"), Some(highest_high_val),
                    Some(lowest_low_val))
  ELSE IF signal_breakout /\ current_trend = "down"
  THEN details_dict(current_trend, today, date_of_highest_high,
                    date_of_lowest_low, Some("SELL"), Some(highest_high_val),
                    Some(lowest_low_val))
  ELSE details_dict(current_trend, today, date_of_highest_high,
                    date_of_lowest_low, None, None, None)

\* Mutant: the trade setup is filled in whether or not a signal fired.
build_details_unguarded(current_trend, signal_breakout, today, date_of_highest_high, date_of_lowest_low, highest_high_val, lowest_low_val) ==
  IF current_trend = "up"
  THEN details_dict(current_trend, today, date_of_highest_high,
                    date_of_lowest_low, Some("BUY"), Some(lowest_low_val),
                    Some(highest_high_val))
  ELSE details_dict(current_trend, today, date_of_highest_high,
                    date_of_lowest_low, Some("SELL"), Some(highest_high_val),
                    Some(lowest_low_val))

\* Lines 73-93: the details dict, with the trade setup when a signal fired.
build_details(current_trend, signal_breakout, today, date_of_highest_high, date_of_lowest_low, highest_high_val, lowest_low_val) ==
  LET action ==
        IF signal_breakout /\ current_trend = "up" THEN Some("BUY")
        ELSE IF signal_breakout /\ current_trend = "down" THEN Some("SELL")
        ELSE None
      stoploss ==
        IF signal_breakout /\ current_trend = "up" THEN Some(lowest_low_val)
        ELSE IF signal_breakout /\ current_trend = "down" THEN Some(highest_high_val)
        ELSE None
      target ==
        IF signal_breakout /\ current_trend = "up" THEN Some(highest_high_val)
        ELSE IF signal_breakout /\ current_trend = "down" THEN Some(lowest_low_val)
        ELSE None
  IN details_dict(current_trend, today, date_of_highest_high,
                  date_of_lowest_low, action, stoploss, target)

\* The failure outcome (None, False, {}).
FailureOutcome == <<None, FALSE, EmptyDict>>

\* The body of the try block of analyze_market (lines 50-95), statement by
\* statement: line 50 reads High (KeyError when the column is missing) and
\* takes its idxmax (ValueError when there is no row), line 51 reads Low,
\* line 66 or 70 reads Open.
analyze_try(df, th) ==
  IF "High" \notin df.columns THEN Raise("KeyError")
  ELSE IF Len(df.rows) = 0 THEN Raise("ValueError")
  ELSE IF "Low" \notin df.columns THEN Raise("KeyError")
  ELSE
    LET date_of_highest_high == idxmax(df, "High")
        date_of_lowest_low == idxmin(df, "Low")
        highest_high_val == loc(df, date_of_highest_high).High
        lowest_low_val == loc(df, date_of_lowest_low).Low
        current_trend == classify_trend(date_of_lowest_low, date_of_highest_high)
        today == iloc_last(df)
    IN IF "Open" \notin df.columns THEN Raise("KeyError")
       ELSE
         LET signal_breakout == breakout(current_trend, today, th)
         IN Return(<<Some(current_trend), signal_breakout,
                     build_details(current_trend, signal_breakout, today,
                                   date_of_highest_high, date_of_lowest_low,
                                   highest_high_val, lowest_low_val)>>)

\* Mutant: no handler, the exception reaches the caller.
analyze_market_unhandled(df, th) == analyze_try(df, th)

\* analyze_market(data, threshold): the try block with its handler.
analyze_market(df, th) ==
  LET r == analyze_try(df, th)
  IN IF r.exc THEN Return(FailureOutcome) ELSE r

(***************************************************************************)
(* load_tickers                                                            *)
(***************************************************************************)
\* A character is its Unicode code point; a line is the sequence of its
\* characters.

\* The characters str.strip() removes: those str.isspace() holds for.
Whitespace ==
  (9..13) \cup (28..32) \cup {133, 160, 5760} \cup (8192..8202) \cup
  {8232, 8233, 8239, 8287, 12288}

RECURSIVE lstrip(_)
lstrip(cs) ==
  IF cs = <<>> THEN <<>>
  ELSE IF Head(cs) \in Whitespace THEN lstrip(Tail(cs)) ELSE cs

RECURSIVE rstrip(_)
rstrip(cs) ==
  IF cs = <<>> THEN <<>>
  ELSE IF cs[Len(cs)] \in Whitespace THEN rstrip(SubSeq(cs, 1, Len(cs) - 1))
  ELSE cs

\* line.strip(), on a line given as the sequence of its characters.
strip(cs) == lstrip(rstrip(cs))

\* [line.strip() for line in f if line.strip()]
RECURSIVE stripped_lines(_)
stripped_lines(lines) ==
  IF lines = <<>> THEN <<>>
  ELSE LET rest == stripped_lines(Tail(lines))
       IN IF strip(Head(lines)) # <<>>
          THEN <<strip(Head(lines))>> \o rest
          ELSE rest

\* Mutant: blank lines are not filtered out.
load_tickers_keep_blank(f) ==
  IF ~f.readable THEN <<>>
  ELSE [i \in 1..Len(f.lines) |-> strip(f.lines[i])]

\* load_tickers(filename): f is what open() finds under that name,
\* [readable |-> BOOLEAN, lines |-> the file's lines].
load_tickers(f) ==
  IF ~f.readable THEN <<>> ELSE stripped_lines(f.lines)

(***************************************************************************)
(* get_data, get_trend_details, send_mail and the loop of main             *)
(***************************************************************************)
\* analyze_market's default threshold.
DefaultThreshold == 3

RECEIVER_EMAIL == "keshavaradha990@gmail.com"

\* get_data(ticker_symbol): response is what ticker.history(period="1mo")
\* does for that symbol, a returned frame or a raised exception.
get_data(response) ==
  IF response.exc THEN EmptyFrame ELSE response.value

\* get_trend_details(ticker_symbol), given the provider's response.
get_trend_details(response) ==
  LET d == get_data(response)
  IN IF IsEmpty(d) THEN Return(FailureOutcome)
     ELSE analyze_market(d, DefaultThreshold)

\* What get_data and analyze_market log for a symbol: the error of line 110,
\* the warning of line 107, the error of line 98, or nothing.
logged(response) ==
  IF response.exc THEN "fetch_failed"
  ELSE IF IsEmpty(response.value) THEN "no_data"
  ELSE IF analyze_try(response.value, DefaultThreshold).exc THEN "analysis_error"
  ELSE "analyzed"

\* Line 170, "if signal:", reached only when get_trend_details returned.
signal_found(r) == ~r.exc /\ r.value[2]

\* Mutant: the symbol is not added to the dict.
with_symbol_forgotten(details, symbol) == details

\* Line 173: details['symbol'] = symbol
with_symbol(details, symbol) ==
  [k \in (DOMAIN details) \cup {"symbol"} |->
     IF k = "symbol" THEN symbol ELSE details[k]]

\* The replacement fields of BODY_TEMPLATE, in the order of the text.
TemplateFields ==
  << "action", "symbol", "trend", "current_price", "latest_date", "stoploss",
     "target", "high_date", "low_date" >>

\* What str.format raises at field f: KeyError when details has no such key,
\* TypeError when a '.2f' field holds None; "" when the field formats.
field_error(details, f) ==
  IF f \notin DOMAIN details THEN "KeyError"
  ELSE IF f \in {"stoploss", "target"} /\ details[f] = None THEN "TypeError"
  ELSE ""

\* The characters of a string literal of the program.
Text(s) ==
  CASE s = "Trade Signal: " ->
         <<84, 114, 97, 100, 101, 32, 83, 105, 103, 110, 97, 108, 58, 32>>
    [] s = "Action Alert: " ->
         <<65, 99, 116, 105, 111, 110, 32, 65, 108, 101, 114, 116, 58, 32>>
    [] s = " " ->
         <<32>>
    [] s = "Current Trend: " ->
         <<67, 117, 114, 114, 101, 110, 116, 32, 84, 114, 101, 110, 100, 58,
         32>>
    [] s = "Current Price: " ->
         <<67, 117, 114, 114, 101, 110, 116, 32, 80, 114, 105, 99, 101, 58,
         32>>
    [] s = "Market Date: " ->
         <<77, 97, 114, 107, 101, 116, 32, 68, 97, 116, 101, 58, 32>>
    [] s = "--- Trade Setup ---" ->
         <<45, 45, 45, 32, 84, 114, 97, 100, 101, 32, 83, 101, 116, 117, 112,
         32, 45, 45, 45>>
    [] s = "Stoploss: " ->
         <<83, 116, 111, 112, 108, 111, 115, 115, 58, 32>>
    [] s = "Target: " ->
         <<84, 97, 114, 103, 101, 116, 58, 32>>
    [] s = "High Reference: " ->
         <<72, 105, 103, 104, 32, 82, 101, 102, 101, 114, 101, 110, 99, 101,
         58, 32>>
    [] s = "Low Reference: " ->
         <<76, 111, 119, 32, 82, 101, 102, 101, 114, 101, 110, 99, 101, 58,
         32>>
    [] s = "None" ->
         <<78, 111, 110, 101>>
    [] s = "up" ->
         <<117, 112>>
    [] s = "down" ->
         <<100, 111, 119, 110>>
    [] s = "BUY" ->
         <<66, 85, 89>>
    [] s = "SELL" ->
         <<83, 69, 76, 76>>

\* str(x) of a string that may be None.
PyStr(x) == IF x = None THEN Text("None") ELSE Text(x[1])

\* BODY_TEMPLATE.format(**details): the fields are formatted left to right
\* and the first that fails raises; otherwise the lines of the body.
format_body(details) ==
  LET failing == { i \in DOMAIN TemplateFields :
                     field_error(details, TemplateFields[i]) # "" }
      first == CHOOSE i \in failing : \A j \in failing : i <= j
  IN IF failing # {} THEN Raise(field_error(details, TemplateFields[first]))
  ELSE Return(
    << <<>>,
       Text("Action Alert: ") \o PyStr(details["action"]) \o Text(" ")
         \o details["symbol"],
       <<>>,
       Text("Current Trend: ") \o PyStr(details["trend"]),
       Text("Current Price: ") \o Format2f(details["current_price"]),
       Text("Market Date: ") \o details["latest_date"],
       <<>>,
       Text("--- Trade Setup ---"),
       Text("Stoploss: ") \o Format2f(details["stoploss"][1]),
       Text("Target: ") \o Format2f(details["target"][1]),
       <<>>,
       Text("High Reference: ") \o details["high_date"],
       Text("Low Reference: ") \o details["low_date"] >>)

\* Line 177: f"Trade Signal: {details['action']} {symbol}"
format_subject(details, symbol) ==
  Text("Trade Signal: ") \o PyStr(details["action"]) \o Text(" ") \o symbol

\* Mutant: the loop stops one symbol short.
loop_next_short(i, n) ==
  IF i + 1 < n THEN [pc |-> "iter", idx |-> i + 1] ELSE [pc |-> "done", idx |-> i]

\* Line 165: the for loop's step after the iteration at position i of n.
loop_next(i, n) ==
  IF i < n THEN [pc |-> "iter", idx |-> i + 1] ELSE [pc |-> "done", idx |-> i]

(***************************************************************************)
(* Inputs.                                                                 *)
(***************************************************************************)
\* Lines the ticker file may hold: "\n", "\f\xa0\u2003\n", "A\n", " B\t\n"
\* and a last line "A B" without its newline.
Lines ==
  { <<10>>, <<12, 160, 8195, 10>>, <<65, 10>>, <<32, 66, 9, 10>>,
    <<65, 32, 66>> }

SeqsUpTo(S, n) == UNION { [1..k -> S] : k \in 0..n }

\* What open() finds: no readable file, or a text file of up to MaxLines
\* lines.  Iterating a file yields lines that end with their newline, but
\* for the last, which may lack it.
Files ==
  { [readable |-> FALSE, lines |-> <<>>] } \cup
  { [readable |-> TRUE, lines |-> ls] :
      ls \in { l \in SeqsUpTo(Lines, MaxLines) :
                \A i \in 1..(Len(l) - 1) : l[i][Len(l[i])] = 10 } }

\* The frame holding the given bars (<<Open, High, Low>> each) on the first
\* trading days.
Window(bars) ==
  DataFrame(RequiredColumns,
            [i \in 1..Len(bars) |->
               Row(TradingDays[i], bars[i][1], bars[i][2], bars[i][3])])

\* Bars as <<Open, High, Low>>.  The low is never above the high; the open
\* may lie outside them (a malformed bar).
Bars == { b \in Prices \X Prices \X Prices : b[3] <= b[2] }

\* Frames analyze_market is called with: every window of up to MaxBars bars
\* (the empty one included), and frames lacking a column, with a row or
\* with none.
Frames ==
  { Window(bs) : bs \in SeqsUpTo(Bars, MaxBars) } \cup
  { DataFrame(cols, Window(bs).rows) :
      cols \in (SUBSET RequiredColumns) \ {RequiredColumns},
      bs \in {<<>>, <<<<1, 2, 1>>>>, <<<<5, 5, 2>>>>} }

\* Bars the price history provider answers main with.
FeedBars == { <<1, 5, 1>>, <<5, 5, 1>>, <<5, 5, 2>> }

\* Answers of ticker.history: an exception, an empty frame, a frame that
\* lacks a column, or a window of one or two bars.
ProviderResponses ==
  { Raise("Exception"), Return(EmptyFrame),
    Return(DataFrame({"Open", "High"}, Window(<<<<1, 5, 1>>>>).rows)) } \cup
  { Return(Window(<<a>>)) : a \in FeedBars } \cup
  { Return(Window(<<a, b>>)) : a \in FeedBars, b \in FeedBars }

(***************************************************************************)
(* The run of main.                                                        *)
(***************************************************************************)
NoMail == [subject |-> <<>>, body |-> <<>>, to_email |-> ""]

Init ==
  /\ pc = "start"
  /\ file \in Files
  /\ ticker_symbols = <<>>
  /\ idx = 0
  /\ fetched = <<>>
  /\ log = <<>>
  /\ data = EmptyFrame
  /\ threshold = DefaultThreshold
  /\ ret = Return(FailureOutcome)
  /\ sendCalls = <<>>
  /\ lastMail = NoMail
  /\ lastDelivery = "none"

\* Lines 159-163: load the symbols; return at once when there are none.
LoadTickers ==
  /\ pc = "start"
  /\ ticker_symbols' = load_tickers(file)
  /\ sendCalls' = [i \in 1..Len(ticker_symbols') |-> 0]
  /\ IF ticker_symbols' = <<>>
     THEN pc' = "done" /\ idx' = idx
     ELSE pc' = "iter" /\ idx' = 1
  /\ UNCHANGED <<file, fetched, log, data, threshold, ret, lastMail,
                 lastDelivery>>

\* Line 168: trend, signal, details = get_trend_details(symbol)
GetTrendDetails ==
  /\ pc = "iter"
  /\ \E response \in ProviderResponses :
       /\ data' = get_data(response)
       /\ ret' = get_trend_details(response)
       /\ log' = Append(log, logged(response))
  /\ fetched' = Append(fetched, ticker_symbols[idx])
  /\ pc' = "branch"
  /\ UNCHANGED <<file, ticker_symbols, idx, threshold, sendCalls, lastMail,
                 lastDelivery>>

\* Lines 170-180: a signal; line 173 adds the symbol to the returned dict
\* itself, the mail is formatted and handed to send_mail, whose delivery
\* succeeds or fails (send_mail catches the failure).  A failure to format
\* is caught by the handler of line 187.
Notify ==
  /\ pc = "branch"
  /\ signal_found(ret)
  /\ LET symbol == ticker_symbols[idx]
         details == with_symbol(ret.value[3], symbol)
         body == format_body(details)
     IN IF body.exc
        THEN UNCHANGED <<sendCalls, lastMail, lastDelivery>>
        ELSE /\ sendCalls' = [sendCalls EXCEPT ![idx] = @ + 1]
             /\ lastMail' = [subject |-> format_subject(details, symbol),
                             body |-> body.value,
                             to_email |-> RECEIVER_EMAIL]
             /\ \E delivered \in BOOLEAN :
                  lastDelivery' = IF delivered THEN "sent" ELSE "failed"
  /\ ret' = Return(<<ret.value[1], ret.value[2],
                      with_symbol(ret.value[3], ticker_symbols[idx])>>)
  /\ pc' = loop_next(idx, Len(ticker_symbols)).pc
  /\ idx' = loop_next(idx, Len(ticker_symbols)).idx
  /\ UNCHANGED <<file, ticker_symbols, fetched, log, data, threshold>>

\* Lines 181-188: no signal (the trend or the warning is logged), or an
\* exception out of get_trend_details caught by the handler of line 187.
NoSignal ==
  /\ pc = "branch"
  /\ ~signal_found(ret)
  /\ pc' = loop_next(idx, Len(ticker_symbols)).pc
  /\ idx' = loop_next(idx, Len(ticker_symbols)).idx
  /\ UNCHANGED <<file, ticker_symbols, fetched, log, data, threshold, ret,
                 sendCalls, lastMail, lastDelivery>>

Next == LoadTickers \/ GetTrendDetails \/ Notify \/ NoSignal

Spec == Init /\ [][Next]_vars

\* The steps main makes on its own complete.  A step that waits for the
\* price provider (line 105) or for the SMTP server (line 130) completes
\* only if that call returns or raises: the code sets no timeout on either,
\* so GetTrendDetails and Notify carry no fairness.
FairSpec == Spec /\ WF_vars(LoadTickers) /\ WF_vars(NoSignal)

(***************************************************************************)
(* analyze_market on its own, over every frame and threshold.              *)
(***************************************************************************)
AnalyzeInit ==
  /\ pc = "analyze_call"
  /\ data \in Frames
  /\ file = [readable |-> FALSE, lines |-> <<>>]
  /\ ticker_symbols = <<>>
  /\ idx = 0
  /\ fetched = <<>>
  /\ log = <<>>
  /\ threshold = DefaultThreshold
  /\ ret = Return(FailureOutcome)
  /\ sendCalls = <<>>
  /\ lastMail = NoMail
  /\ lastDelivery = "none"

AnalyzeCall ==
  /\ pc = "analyze_call"
  /\ \E th \in Thresholds :
       /\ threshold' = th
       /\ ret' = analyze_market(data, th)
  /\ pc' = "analyze_returned"
  /\ UNCHANGED <<file, ticker_symbols, idx, fetched, log, data, sendCalls,
                 lastMail, lastDelivery>>

AnalyzeNext == AnalyzeCall

AnalyzeSpec == AnalyzeInit /\ [][AnalyzeNext]_vars

(***************************************************************************)
(* Vocabulary of the properties, stated on the window itself.              *)
(***************************************************************************)
\* analyze_market has returned or raised.
Returned == pc = "analyze_returned"

\* A non-empty window whose bars carry every required field.
ProperWindow(df) == RequiredColumns \subseteq df.columns /\ Len(df.rows) > 0

MaxOfHighs(df) ==
  CHOOSE v \in { df.rows[i].High : i \in 1..Len(df.rows) } :
    \A i \in 1..Len(df.rows) : df.rows[i].High <= v

MinOfLows(df) ==
  CHOOSE v \in { df.rows[i].Low : i \in 1..Len(df.rows) } :
    \A i \in 1..Len(df.rows) : df.rows[i].Low >= v

HighPositions(df) == { i \in 1..Len(df.rows) : df.rows[i].High = MaxOfHighs(df) }
LowPositions(df) == { i \in 1..Len(df.rows) : df.rows[i].Low = MinOfLows(df) }

\* Rows are in chronological order: the earliest bar of a set of positions
\* is the one at the least position.
Earliest(S) == CHOOSE i \in S : \A j \in S : i <= j
HighBar(df) == Earliest(HighPositions(df))
LowBar(df) == Earliest(LowPositions(df))

\* The dates of the trading days as YYYY-MM-DD, written out in code points:
\* 2024-02-28, 2024-02-29, 2024-03-01, 2024-03-04, 2024-03-05, 2024-03-06.
DayText ==
  << <<50, 48, 50, 52, 45, 48, 50, 45, 50, 56>>,
     <<50, 48, 50, 52, 45, 48, 50, 45, 50, 57>>,
     <<50, 48, 50, 52, 45, 48, 51, 45, 48, 49>>,
     <<50, 48, 50, 52, 45, 48, 51, 45, 48, 52>>,
     <<50, 48, 50, 52, 45, 48, 51, 45, 48, 53>>,
     <<50, 48, 50, 52, 45, 48, 51, 45, 48, 54>> >>

Trend == ret.value[1]
Signal == ret.value[2]
Details == ret.value[3]
Today == data.rows[Len(data.rows)]

\* Every bar of the window has low <= open <= high.
OrderedBars(df) ==
  \A i \in 1..Len(df.rows) :
    df.rows[i].Low <= df.rows[i].Open /\ df.rows[i].Open <= df.rows[i].High

(***************************************************************************)
(* C3: for every non-empty window analyze_market returns a trend that is   *)
(* never absent: "up" exactly when the bar holding the minimum low is      *)
(* strictly later than the bar holding the maximum high, "down" in every   *)
(* other case, the same bar holding both extremes included.                *)
(***************************************************************************)
C3_TrendByRecency ==
  (Returned /\ ProperWindow(data)) =>
    /\ ~ret.exc
    /\ Trend \in {Some("up"), Some("down")}
    /\ (Trend = Some("up")) <=> (LowBar(data) > HighBar(data))

\* A three-bar window whose second bar holds both extremes: trend down.
C3_Witness ==
  /\ Returned /\ ProperWindow(data) /\ Len(data.rows) = 3
  /\ HighBar(data) = 2 /\ LowBar(data) = 2
  /\ Trend = Some("down")

(***************************************************************************)
(* C4: when several bars share the maximal high (minimal low) the earliest *)
(* of them is the high (low) bar: the reference dates of the outcome are   *)
(* the dates of these earliest bars and the trend is the one they give.    *)
(***************************************************************************)
C4_EarliestOnTies ==
  (Returned /\ ProperWindow(data)) =>
    /\ Details.high_date = DayText[HighBar(data)]
    /\ Details.low_date = DayText[LowBar(data)]
    /\ Trend = IF LowBar(data) > HighBar(data) THEN Some("up") ELSE Some("down")

\* The maximal high is shared by the first and the last bar, the minimal low
\* lies between them: the earliest high makes the trend up, the latest
\* would make it down.
C4_Witness ==
  /\ Returned /\ ProperWindow(data) /\ Len(data.rows) = 3
  /\ HighPositions(data) = {1, 3} /\ LowPositions(data) = {2, 3}
  /\ Trend = Some("up")
  /\ Details.high_date = DayText[1] /\ Details.low_date = DayText[2]

(***************************************************************************)
(* C5: breakout is triggered iff on the last bar |open - low| <= threshold *)
(* (trend up) or |open - high| <= threshold (trend down); with threshold 0 *)
(* only when the open equals that extreme of the last bar.                 *)
(***************************************************************************)
C5_BreakoutTest ==
  (Returned /\ ProperWindow(data)) =>
    LET ref == IF Trend = Some("up") THEN Today.Low ELSE Today.High
        gap == Today.Open - ref
    IN /\ Signal <=> (gap <= threshold /\ -gap <= threshold)
       /\ (threshold = 0 /\ Signal) => Today.Open = ref

\* The gap equals the threshold: still triggered.
C5_Witness ==
  /\ Returned /\ ProperWindow(data) /\ Len(data.rows) = 3
  /\ threshold = 3 /\ Trend = Some("up")
  /\ Today.Open - Today.Low = 3
  /\ Signal

(***************************************************************************)
(* C6: a triggered outcome carries BUY with stoploss = minimum low and     *)
(* target = maximum high when the trend is up, SELL with stoploss =        *)
(* maximum high and target = minimum low when it is down; current_price is *)
(* the last bar's open, the as-of date the last bar's date, the reference  *)
(* dates those of the high bar and of the low bar.                         *)
(***************************************************************************)
C6_Recommendation ==
  (Returned /\ ProperWindow(data) /\ Signal) =>
    /\ Trend = Some("up") =>
         /\ Details.action = Some("BUY")
         /\ Details.stoploss = Some(MinOfLows(data))
         /\ Details.target = Some(MaxOfHighs(data))
    /\ Trend = Some("down") =>
         /\ Details.action = Some("SELL")
         /\ Details.stoploss = Some(MaxOfHighs(data))
         /\ Details.target = Some(MinOfLows(data))
    /\ Details.trend = Trend
    /\ Details.current_price = Today.Open
    /\ Details.latest_date = DayText[Len(data.rows)]
    /\ Details.high_date = DayText[HighBar(data)]
    /\ Details.low_date = DayText[LowBar(data)]

\* A SELL whose three bars are the high bar, the low bar and today.
C6_Witness ==
  /\ Returned /\ ProperWindow(data) /\ Len(data.rows) = 3
  /\ Signal /\ Details.action = Some("SELL")
  /\ LowBar(data) = 1 /\ HighBar(data) = 2
  /\ Details.stoploss = Some(5) /\ Details.target = Some(1)
  /\ Today.High = 2

(***************************************************************************)
(* C7: analyze_market never raises; on an empty window or one lacking a    *)
(* required field it returns (None, False, {}); and in every outcome an    *)
(* absent trend comes with breakout false and no recommendation.           *)
(***************************************************************************)
C7_FailureOutcome ==
  Returned =>
    /\ ~ret.exc
    /\ ~ProperWindow(data) => ret.value = FailureOutcome
    /\ Trend = None => (Signal = FALSE /\ Details = EmptyDict)

\* A window with a bar but without the Low column.
C7_Witness ==
  /\ Returned /\ Len(data.rows) = 1 /\ data.columns = {"Open", "High"}
  /\ ~ret.exc /\ ret.value = FailureOutcome

(***************************************************************************)
(* C8: on a non-empty window whose breakout test is not met the outcome    *)
(* reports the trend (up or down), breakout false, and no recommendation:  *)
(* no action, stoploss or target is produced.                              *)
(***************************************************************************)
C8_NoRecommendation ==
  (Returned /\ ProperWindow(data)) =>
    LET ref == IF LowBar(data) > HighBar(data) THEN Today.Low ELSE Today.High
        gap == Today.Open - ref
        met == gap <= threshold /\ -gap <= threshold
    IN ~met =>
         /\ Trend \in {Some("up"), Some("down")}
         /\ Signal = FALSE
         /\ Details.action = None
         /\ Details.stoploss = None
         /\ Details.target = None

\* Trend up, the open 4 above the low, threshold 3.
C8_Witness ==
  /\ Returned /\ ProperWindow(data) /\ threshold = 3
  /\ Trend = Some("up") /\ Today.Open - Today.Low = 4
  /\ Signal = FALSE /\ Details.action = None /\ Details.stoploss = None

(***************************************************************************)
(* C10: when every bar has low <= open <= high, a triggered recommendation *)
(* brackets the current price: stoploss <= price <= target for a BUY,      *)
(* target <= price <= stoploss for a SELL.                                 *)
(***************************************************************************)
C10_Brackets ==
  (Returned /\ ProperWindow(data) /\ OrderedBars(data) /\ Signal) =>
    LET price == Details.current_price
        stop == Details.stoploss[1]
        goal == Details.target[1]
    IN /\ Details.action = Some("BUY") => (stop <= price /\ price <= goal)
       /\ Details.action = Some("SELL") => (goal <= price /\ price <= stop)

\* A BUY strictly inside its bracket.
C10_Witness ==
  /\ Returned /\ ProperWindow(data) /\ OrderedBars(data) /\ Signal
  /\ Details.action = Some("BUY")
  /\ Details.stoploss[1] < Details.current_price
  /\ Details.current_price < Details.target[1]

(***************************************************************************)
(* C1: over a non-empty symbol list every symbol is fetched exactly once   *)
(* and in list order, whatever the fetch, the analysis or the delivery of  *)
(* the other symbols did.                                                  *)
(***************************************************************************)
C1_OnceInOrder ==
  /\ Len(fetched) <= Len(ticker_symbols)
  /\ fetched = SubSeq(ticker_symbols, 1, Len(fetched))
  /\ pc = "iter" => Len(fetched) = idx - 1
  /\ pc = "branch" => Len(fetched) = idx
  /\ pc = "done" => fetched = ticker_symbols

\* C1 as stated: every symbol is fetched once and in order, and the run
\* always reaches its end after the last symbol.
C1_AlwaysReachesEnd == []C1_OnceInOrder /\ <>(pc = "done")

\* C1, amended: every symbol is fetched once and in order, and the run
\* reaches its end after the last symbol provided every call of the price
\* provider and of send_mail returns or raises.
C1_EverySymbolOnceInOrder ==
  /\ []C1_OnceInOrder
  /\ (WF_vars(GetTrendDetails) /\ WF_vars(Notify)) => <>(pc = "done")

\* The first symbol's fetch was empty, the second's delivery failed, and the
\* run ended with both fetched.
C1_Witness ==
  /\ pc = "done" /\ Len(ticker_symbols) = 2
  /\ fetched = ticker_symbols
  /\ log = <<"no_data", "analyzed">>
  /\ sendCalls = <<0, 1>> /\ lastDelivery = "failed"

(***************************************************************************)
(* C2: for each symbol occurrence send_mail is called exactly once if the  *)
(* fetch returned a non-empty window and analyze_market reported a         *)
(* breakout for it, and not at all otherwise; the subject and the body     *)
(* carry that symbol and the action of its own recommendation.             *)
(***************************************************************************)
C2_Step ==
  /\ pc = "start" => \A j \in DOMAIN sendCalls' : sendCalls'[j] = 0
  /\ pc = "iter" => sendCalls' = sendCalls /\ lastMail' = lastMail
  /\ pc = "branch" =>
       LET symbol == ticker_symbols[idx]
           outcome == analyze_market(data, DefaultThreshold).value
           triggered == ~IsEmpty(data) /\ outcome[2]
           act == IF outcome[1] = Some("up") THEN <<66, 85, 89>>  \* BUY
                  ELSE <<83, 69, 76, 76>>                      \* SELL
       IN /\ sendCalls[idx] = 0
          /\ sendCalls'[idx] = IF triggered THEN 1 ELSE 0
          /\ \A j \in DOMAIN sendCalls : j # idx => sendCalls'[j] = sendCalls[j]
          /\ triggered =>
               /\ lastMail'.subject =
                    Text("Trade Signal: ") \o act \o <<32>> \o symbol
               /\ lastMail'.body[2] =
                    Text("Action Alert: ") \o act \o <<32>> \o symbol
               /\ lastMail'.to_email = RECEIVER_EMAIL
          /\ ~triggered => lastMail' = lastMail

\* C2: every step of the run calls send_mail once for a symbol with a
\* breakout, with that symbol's subject and body, and never otherwise.
C2_OneMailPerBreakout == [][C2_Step]_vars

\* Two different symbols, "A" and "A B", both analyzed: no breakout for the
\* first, a BUY mailed for the second with the subject
\* "Trade Signal: BUY A B" and the body line "Action Alert: BUY A B".
C2_Witness ==
  /\ pc = "done" /\ ticker_symbols = << <<65>>, <<65, 32, 66>> >>
  /\ log = <<"analyzed", "analyzed">>
  /\ sendCalls = <<0, 1>>
  /\ lastMail.subject = <<84, 114, 97, 100, 101, 32, 83, 105, 103, 110, 97, 108, 58, 32, 66, 85,
      89, 32, 65, 32, 66>>
  /\ lastMail.body[2] = <<65, 99, 116, 105, 111, 110, 32, 65, 108, 101, 114, 116, 58, 32, 66,
      85, 89, 32, 65, 32, 66>>

(***************************************************************************)
(* C9: when the symbol source is missing, unreadable or has no non-blank   *)
(* line, load_tickers returns an empty list and main ends at once, with no *)
(* fetch, no analysis and no notification.                                 *)
(***************************************************************************)
\* The code points of white space: tab to carriage return, the separators
\* 28-31, the space, NEL, the no-break space and the Unicode spaces.
BlankLine(l) ==
  \A i \in 1..Len(l) :
    \/ 9 <= l[i] /\ l[i] <= 13
    \/ 28 <= l[i] /\ l[i] <= 32
    \/ l[i] \in {133, 160, 5760, 8232, 8233, 8239, 8287, 12288}
    \/ 8192 <= l[i] /\ l[i] <= 8202

NoSymbols(f) == ~f.readable \/ \A i \in 1..Len(f.lines) : BlankLine(f.lines[i])

\* C9: with no symbol to read, main is done with nothing fetched, analyzed
\* or mailed.
C9_NothingToDo ==
  (NoSymbols(file) /\ pc # "start") =>
    /\ ticker_symbols = <<>>
    /\ pc = "done"
    /\ fetched = <<>> /\ log = <<>>
    /\ ret = Return(FailureOutcome) /\ data = EmptyFrame
    /\ sendCalls = <<>> /\ lastMail = NoMail /\ lastDelivery = "none"

\* A readable file of two blank lines.
C9_Witness ==
  /\ file.readable /\ Len(file.lines) = 2 /\ NoSymbols(file)
  /\ pc = "done" /\ ticker_symbols = <<>> /\ fetched = <<>>

====
